---- MODULE Spec2Model ----
(***************************************************************************)
(* Model of provision/config.py: the two-step configuration loader.        *)
(*                                                                         *)
(* A path is a sequence of segments; an absolute path starts with the      *)
(* segment "/", and a final segment "" is a trailing separator.  The       *)
(* interpreter is Python 2.7, the one the code base targets.  The file     *)
(* system is a fixed tree without symbolic links; paths are resolved       *)
(* against it segment by segment, "." and ".." included.                   *)
(* An optional value (Python None or a value) is a set with  *)
(* zero or one element.  A dict is a function whose DOMAIN is its key set. *)
(***************************************************************************)
EXTENDS Integers, Sequences, FiniteSets, TLC

\* ------------------------------------------------------------------ bounds
\* Paths handed to configure-family calls plus direct registrations, summed
\* over all calls made after the module-level configure(defaults).
MaxWork == 2

\* --------------------------------------------------------- optional values
None == {}
Some(v) == {v}
The(o) == CHOOSE v \in o : TRUE

EmptyMap == << >>

\* ------------------------------------------------------------------ os.path
isabs(p) == Len(p) > 0 /\ p[1] = "/"

\* a path whose final segment is the empty one left by a trailing separator
trailing(p) == Len(p) > 0 /\ p[Len(p)] = ""

\* a path that ends with a separator: the root, or a final "" segment
endsep(p) == Len(p) > 0 /\ (p[Len(p)] = "" \/ (Len(p) = 1 /\ isabs(p)))

\* os.path.join(a, b): an absolute b discards a; an empty a gives b; otherwise
\* a, one separator, b (so an empty b leaves a with a trailing separator)
join(a, b) ==
  IF isabs(b) THEN b
  ELSE IF a = << >> THEN b
  ELSE IF b = << >> THEN (IF endsep(a) THEN a ELSE a \o <<"">>)
  ELSE IF trailing(a) THEN SubSeq(a, 1, Len(a) - 1) \o b
  ELSE a \o b

join3(a, b, c) == join(join(a, b), c)

\* str.rstrip('/') of a directory part: the empty segments at its end removed
RECURSIVE rstrip(_)
rstrip(p) ==
  IF Len(p) > (IF isabs(p) THEN 1 ELSE 0) /\ p[Len(p)] = ""
  THEN rstrip(SubSeq(p, 1, Len(p) - 1))
  ELSE p

\* os.path.dirname: everything before the final segment, without the
\* separators that end it ("/" is its own dirname)
dirname(p) ==
  IF Len(p) = 0 THEN << >>
  ELSE IF Len(p) = 1 THEN (IF isabs(p) THEN p ELSE << >>)
  ELSE rstrip(SubSeq(p, 1, Len(p) - 1))

\* os.path.basename: the final segment, as a relative path ("" after a final "/")
basename(p) ==
  IF Len(p) = 0 \/ endsep(p) THEN << >> ELSE <<p[Len(p)]>>

\* os.path.expanduser: a leading "~" segment becomes the home directory of the
\* current user ($HOME), a leading "~user" segment the home directory the
\* password database gives for user (root is its only user here); a "~name"
\* of an unknown user, like any other path, is returned unchanged
UserHome == <<"/", "home">>
RootHome == <<"/", "root">>
expanduser(p) ==
  IF Len(p) > 0 /\ p[1] = "~" THEN UserHome \o SubSeq(p, 2, Len(p))
  ELSE IF Len(p) > 0 /\ p[1] = "~root" THEN RootHome \o SubSeq(p, 2, Len(p))
  ELSE p

\* --------------------------------------------------------- module constants
CODEPATH == <<"/", "code">>
CWD == <<"/", "work">>
SCRIPTSDIR == <<"scripts">>
FILESDIR == <<"files">>
PUBKEYSDIR == <<"pubkeys">>
DEFAULT_TARGETDIR == <<"/", "root", "deploy">>
LOCAL_DEFAULTS == expanduser(<<"~", ".provision", "secrets">>)

\* ------------------------------------------------------- the file system
\* The modules config.py imports at its top (lines 1-10, 69) are in
\* sys.modules before any configuration path is imported.
Imported ==
  { "argparse", "os", "random", "re", "string", "sys", "socket", "libcloud",
    "logging" }

StdDir == <<"/", "usr", "lib">>

\* Directories that hold an importable package (a directory with an
\* __init__.py), and what importing it does:
\* load = "ok" | "leak" (its top-level code appends to sys.path) |
\*        "syntax" (loading raises SyntaxError); hook = its init(), or "none".
ModuleDirs ==
  { <<"/", "code", "defaults">>, LOCAL_DEFAULTS, <<"/", "code", "conf">>,
    <<"/", "work", "conf">>, <<"/", "opt", "app">>, <<"/", "opt", "conf">>,
    <<"/", "opt", "leaky">>, <<"/", "opt", "broken">> }
  \cup { StdDir \o <<n>> : n \in Imported }

ModuleAt(d) ==
  CASE d = <<"/", "code", "defaults">> -> [load |-> "ok", hook |-> "defaults_init"]
    [] d = LOCAL_DEFAULTS              -> [load |-> "ok", hook |-> "secrets_init"]
    [] d = <<"/", "code", "conf">>     -> [load |-> "ok", hook |-> "conf_init"]
    [] d = <<"/", "work", "conf">>     -> [load |-> "ok", hook |-> "site_init"]
    [] d = <<"/", "opt", "app">>       -> [load |-> "ok", hook |-> "app_init"]
    [] d = <<"/", "opt", "conf">>      -> [load |-> "ok", hook |-> "app_init"]
    [] d = <<"/", "opt", "leaky">>     -> [load |-> "leak", hook |-> "none"]
    [] d = <<"/", "opt", "broken">>    -> [load |-> "syntax", hook |-> "none"]
    [] OTHER                           -> [load |-> "ok", hook |-> "none"]

LeakDir == <<"/", "opt", "leaky", "lib">>

\* The regular files: the key files of the pubkeys directories, the user's
\* own public key (read at line 38) and the __init__.py of every package.
KeyFiles ==
  { <<"/", "code", "defaults", "pubkeys", "a.pub">>,
    <<"/", "code", "defaults", "pubkeys", "b.pub">>,
    <<"/", "work", "conf", "pubkeys", "c.pub">>,
    <<"/", "opt", "broken", "pubkeys", "d.pub">> }

Files ==
  KeyFiles \cup { <<"/", "home", ".ssh", "id_rsa.pub">> }
  \cup { d \o <<"__init__.py">> : d \in ModuleDirs }

\* every file and directory: the files, the empty directories, and all the
\* directories above them
Nodes ==
  UNION { {SubSeq(f, 1, k) : k \in 1..Len(f)} :
          f \in Files \cup {LeakDir, StdDir, RootHome} }

Dirs == Nodes \ Files

parent(d) == IF Len(d) <= 1 THEN d ELSE SubSeq(d, 1, Len(d) - 1)

\* Path resolution by the operating system, one segment at a time from the
\* node cur (None once a step has failed): every step needs cur to be a
\* directory; "" and "." stay, ".." goes to the parent, a name goes to the
\* entry of that name.  There are no symbolic links.
RECURSIVE walk(_, _)
walk(cur, rest) ==
  IF cur = None \/ rest = << >> THEN cur
  ELSE IF The(cur) \notin Dirs THEN None
  ELSE IF Head(rest) \in {"", "."} THEN walk(cur, Tail(rest))
  ELSE IF Head(rest) = ".." THEN walk(Some(parent(The(cur))), Tail(rest))
  ELSE IF (The(cur) \o <<Head(rest)>>) \in Nodes
  THEN walk(Some(The(cur) \o <<Head(rest)>>), Tail(rest))
  ELSE None

\* the file or directory a path names (None when there is none); a relative
\* path starts at the working directory, the empty path names nothing
resolve(p) ==
  IF p = << >> THEN None
  ELSE IF isabs(p) THEN walk(Some(<<"/">>), Tail(p))
  ELSE walk(Some(CWD), p)

\* os.path.exists
exists(p) == resolve(p) # None

isdir(p) == resolve(p) \in {Some(d) : d \in Dirs}

isfile(p) == resolve(p) \in {Some(f) : f \in Files}

\* the files and directories directly inside the directory c
Children(c) == { n \in Nodes : Len(n) = Len(c) + 1 /\ SubSeq(n, 1, Len(c)) = c }

\* the entries of the directory c, each as a relative path
Entries(c) == { <<n[Len(n)]>> : n \in Children(c) }

\* every order the members of the set S can come in
RECURSIVE Orders(_)
Orders(S) ==
  IF S = {} THEN { << >> }
  ELSE UNION { { <<x>> \o o : o \in Orders(S \ {x}) } : x \in S }

\* os.listdir of an existing directory: the entries come "in arbitrary
\* order", so the result is any one of the members of this set
listdir(d) == Orders(Entries(The(resolve(d))))

\* the text of the file c, named after the directory and the file holding it
Text(c) == <<"key", c[Len(c) - 2], c[Len(c)]>>

\* open(f).read() of an existing file
read(f) == Text(The(resolve(f)))

\* ------------------------------------------------------- Bundle registry
\* Bundle.__init__: "scriptmap or {}", "filemap or {}"
OrEmpty(o) == IF o = None THEN EmptyMap ELSE The(o)

Bundle(scriptmap, filemap) ==
  [scriptmap |-> OrEmpty(scriptmap), filemap |-> OrEmpty(filemap)]

\* dict(pairs): for a key given several times the last pair wins
LastIdx(keys, k) ==
  CHOOSE i \in 1..Len(keys) :
    keys[i] = k /\ \A j \in (i + 1)..Len(keys) : keys[j] # k

DictOf(keys, vals) ==
  [k \in {keys[i] : i \in 1..Len(keys)} |-> vals[LastIdx(keys, k)]]

\* makemap(filenames, sourcedir, targetdir=None)
makemap(filenames, sourcedir, targetdir) ==
  LET t == IF targetdir = None THEN DEFAULT_TARGETDIR ELSE The(targetdir)
  IN  DictOf([i \in 1..Len(filenames) |-> join(t, filenames[i])],
             [i \in 1..Len(filenames) |-> join(sourcedir, filenames[i])])

\* a registry that keeps the bundle already stored under the name
new_bundle_keep(bm, name, scriptmap, filemap) ==
  [n \in DOMAIN bm \cup {name} |->
     IF n \in DOMAIN bm THEN bm[n] ELSE Bundle(scriptmap, filemap)]

\* new_bundle(name, scriptmap, filemap=None) on the registry bm
new_bundle(bm, name, scriptmap, filemap) ==
  [n \in DOMAIN bm \cup {name} |->
     IF n = name THEN Bundle(scriptmap, filemap) ELSE bm[n]]

\* add_bundle(name, scripts, files) with the default scriptsdir and filesdir;
\* p is the value of the global PATH, which is set whenever a hook runs
add_bundle(bm, p, name, scripts, files) ==
  LET scriptmap == makemap(scripts, join(p, SCRIPTSDIR), None)
      filemap == DictOf(files,
                   [i \in 1..Len(files) |->
                      join3(p, FILESDIR, basename(files[i]))])
  IN  new_bundle(bm, name, Some(scriptmap), Some(filemap))

\* ------------------------------------------------------------- DictObj
\* DictObj.__setattr__: insert or overwrite the key (the warning is only logged)
DictSet(g, k, v) == [x \in DOMAIN g \cup {k} |-> IF x = k THEN v ELSE g[x]]

\* The attributes a DictObj has by normal lookup: the instance attribute "d"
\* set by __init__, and what the class and object (Python 2.7) provide.
ObjectAttrs ==
  { "d", "__dict__", "__class__", "__doc__", "__module__", "__weakref__",
    "__init__", "__setattr__", "__getattr__", "__new__", "__repr__", "__str__",
    "__hash__", "__delattr__", "__getattribute__", "__reduce__",
    "__reduce_ex__", "__sizeof__", "__format__", "__subclasshook__" }

\* the value normal lookup gives for such an attribute of a DictObj over g
ObjectAttr(g, k) ==
  CASE k = "d" -> g
    [] k = "__dict__" -> [d |-> g]
    [] k = "__class__" -> <<"class", "provision.config.DictObj">>
    [] k = "__module__" -> "provision.config"
    [] k = "__doc__" ->
         "Wraps a dict so its keys are accessed like properties, using dot notation"
    [] OTHER -> <<"DictObj", k>>

\* Reading config.k: __getattr__ is called only when normal lookup fails, and
\* then gives the dict's value, or None here where Python raises KeyError.
DictGet(g, k) ==
  IF k \in ObjectAttrs THEN Some(ObjectAttr(g, k))
  ELSE IF k \in DOMAIN g THEN Some(g[k]) ELSE None

\* add_auth_args(parser, config), config being the module: the defaults of
\* -p, -u and -k are read in that order; the first one missing raises
add_auth_args(g) ==
  IF "DEFAULT_PROVIDER" \notin DOMAIN g \/ "DEFAULT_USERID" \notin DOMAIN g
     \/ "DEFAULT_SECRET_KEY" \notin DOMAIN g
  THEN [exc |-> "AttributeError", defaults |-> None]
  ELSE [exc |-> "",
        defaults |-> Some([provider |-> g["DEFAULT_PROVIDER"],
                           userid |-> g["DEFAULT_USERID"],
                           secret_key |-> g["DEFAULT_SECRET_KEY"]])]

\* ------------------------------------------------------ the init hooks
\* What each configuration module's init(config) does, run with the globals g,
\* the registry bm and the global PATH p (always set when a hook runs).
RunHook(h, g, bm, p) ==
  CASE h = "defaults_init" ->
         [G |-> g, exc |-> "",
          BUNDLEMAP |-> add_bundle(bm, The(p), "web", << <<"setup.sh">> >>,
                                   << <<"/", "etc", "app.conf">> >>)]
    [] h = "secrets_init" ->
         [G |-> DictSet(DictSet(DictSet(g, "DEFAULT_PROVIDER", "rackspace"),
                                "DEFAULT_USERID", "u0"),
                        "DEFAULT_SECRET_KEY", "k0"),
          exc |-> "", BUNDLEMAP |-> bm]
    [] h = "conf_init" ->
         [G |-> DictSet(g, "X", 1), exc |-> "",
          BUNDLEMAP |-> add_bundle(bm, The(p), "db", << <<"db.sh">> >>,
                                   << <<"/", "etc", "db.conf">> >>)]
    [] h = "site_init" ->
         [G |-> DictSet(g, "DEFAULT_USERID", "u1"), exc |-> "", BUNDLEMAP |-> bm]
    [] h = "app_init" ->
         IF DictGet(g, "X") = None
         THEN [G |-> g, exc |-> "KeyError", BUNDLEMAP |-> bm]
         ELSE [G |-> DictSet(g, "Y", The(DictGet(g, "X")) + 1), exc |-> "",
               BUNDLEMAP |-> bm]

\* ------------------------------------------------------------- import
\* A module name is split at its dots.  HeadOf gives the first component of a
\* name of this file system ("" when the name starts with a dot); a name that
\* is not listed has no dot and is its own first component.
HeadOf(s) ==
  CASE s \in {".", "..", ".provision", ".ssh"} -> ""
    [] s = "a.pub" -> "a"
    [] s = "b.pub" -> "b"
    [] s = "c.pub" -> "c"
    [] s = "d.pub" -> "d"
    [] s = "id_rsa.pub" -> "id_rsa"
    [] s = "__init__.py" -> "__init__"
    [] OTHER -> s

\* the source file h.py of a module h, for the names that have one
SourceOf(h) == IF h = "__init__" THEN <<"__init__.py">> ELSE << >>

\* the directory a sys.path entry names; the empty entry is the working
\* directory
EntryDir(e) == IF e = << >> THEN Some(CWD) ELSE resolve(e)

\* the module whose code lies at the node c, a package directory or a source
\* file (then the code is that of the package holding the file)
ModuleIn(c) == IF c \in Files THEN ModuleAt(parent(c)) ELSE ModuleAt(c)

\* the module whose code was loaded from the path m
ModuleOf(m) == ModuleIn(The(resolve(m)))

\* the directory d (None when the entry names none) holds the package h
HoldsPackage(d, h) == d \in {Some(c) : c \in Dirs} /\ (The(d) \o <<h>>) \in ModuleDirs

\* the directory d holds the source file h.py
HoldsSource(d, h) == d \in {Some(c) : c \in Dirs} /\ (The(d) \o SourceOf(h)) \in Files

\* The sys.path search for a top-level module h: the entries that are
\* directories holding the package h or the source file h.py.
Finders(h, sp) ==
  {i \in 1..Len(sp) :
     HoldsPackage(EntryDir(sp[i]), h) \/ HoldsSource(EntryDir(sp[i]), h)}

\* loading the module s, first component h, from the path m (pkg: m is a
\* package directory) whose code is c
load(s, h, sp, sm, m, pkg, c) ==
  IF c.load = "syntax"
  THEN [mod |-> None, sys_path |-> sp,
        sys_modules |-> IF pkg THEN DictSet(sm, h, m) ELSE sm,
        exc |-> "SyntaxError"]
  ELSE [mod |-> IF s = h THEN Some(m) ELSE None,
        sys_path |-> IF c.load = "leak" THEN Append(sp, LeakDir) ELSE sp,
        sys_modules |-> DictSet(sm, h, m),
        exc |-> IF s = h THEN "" ELSE "ImportError"]

\* the module found at entry e of sys.path: the package before the source file
found(s, h, sp, sm, e, pkg) ==
  load(s, h, sp, sm, join(e, IF pkg THEN <<h>> ELSE SourceOf(h)), pkg,
       ModuleOf(join(e, IF pkg THEN <<h>> ELSE SourceOf(h))))

\* the import of s, first component h, the search having given the entries F
search(s, h, sp, sm, F) ==
  IF h = ""
  THEN [mod |-> None, sys_path |-> sp, sys_modules |-> sm, exc |-> "ValueError"]
  ELSE IF h \in DOMAIN sm
  THEN [mod |-> IF s = h THEN Some(sm[h]) ELSE None,
        sys_path |-> sp, sys_modules |-> sm,
        exc |-> IF s = h THEN "" ELSE "ImportError"]
  ELSE IF F = {}
  THEN [mod |-> None, sys_path |-> sp, sys_modules |-> sm, exc |-> "ImportError"]
  ELSE found(s, h, sp, sm, sp[CHOOSE i \in F : \A j \in F : i <= j],
             HoldsPackage(EntryDir(sp[CHOOSE i \in F : \A j \in F : i <= j]), h))

\* __import__(name) with search path sp and module cache sm:
\* [mod, sys_path, sys_modules, exc]; mod is the path the returned module
\* object was loaded from.  An empty first component raises ValueError.
\* Otherwise the first component h is taken from sys.modules or searched on
\* sys.path and loaded; a package whose __init__ fails with SyntaxError stays
\* in sys.modules (Python 2.7), a source file that does not compile is never
\* put there.  A dotted name then asks h for a submodule, which no module of
\* this file system has: ImportError, with h left loaded.
import(name, sp, sm) ==
  search(IF name = << >> THEN "" ELSE name[1],
         HeadOf(IF name = << >> THEN "" ELSE name[1]), sp, sm,
         Finders(HeadOf(IF name = << >> THEN "" ELSE name[1]), sp))

\* "del sys.path[-1]"
DelLast(sp) == SubSeq(sp, 1, Len(sp) - 1)

\* "except ImportError: logger.warn(...)" and "finally: del sys.path[-1]" on
\* the outcome r of __import__, caught being the exceptions the clause catches
except_finally(r, caught) ==
  [mod |-> r.mod,
   sys_path |-> DelLast(r.sys_path),
   sys_modules |-> r.sys_modules,
   exc |-> IF r.exc \in caught THEN "" ELSE r.exc,
   warned |-> r.exc \in caught]

\* an import_by_path without the "except ImportError" clause
import_by_path_nocatch(path, sp, sm) ==
  except_finally(import(basename(path), Append(sp, dirname(path)), sm), {})

\* import_by_path(path): append dirname, import basename, catch ImportError
\* (mod None, no exception), finally delete the last sys.path entry.
import_by_path(path, sp, sm) ==
  except_finally(import(basename(path), Append(sp, dirname(path)), sm),
                 {"ImportError"})

\* hasattr(mod, 'init')
hasinit(m) == ModuleOf(m).hook # "none"

\* normalize_path(path)
normalize_path(path) == IF isabs(path) THEN path ELSE join(CODEPATH, path)

\* the loop of load_pubkeys: each listed file's text is appended; open() of
\* an entry that is a directory raises IOError and ends the loop
RECURSIVE read_all(_, _, _)
read_all(loadpath, filenames, pubkeys) ==
  IF filenames = << >> THEN [pubkeys |-> pubkeys, exc |-> ""]
  ELSE IF ~isfile(join(loadpath, Head(filenames)))
  THEN [pubkeys |-> pubkeys, exc |-> "IOError"]
  ELSE read_all(loadpath, Tail(filenames),
                Append(pubkeys, read(join(loadpath, Head(filenames)))))

\* a load_pubkeys that rebinds the list instead of appending to it
load_pubkeys_rebind(loadpath, pubkeys) ==
  IF ~isdir(loadpath) THEN { [pubkeys |-> pubkeys, exc |-> "OSError"] }
  ELSE { read_all(loadpath, filenames, << >>) : filenames \in listdir(loadpath) }

\* load_pubkeys(loadpath, pubkeys): the set of the outcomes [pubkeys, exc],
\* one for each order os.listdir can give the files in; os.listdir of what is
\* not a directory raises OSError
load_pubkeys(loadpath, pubkeys) ==
  IF ~isdir(loadpath) THEN { [pubkeys |-> pubkeys, exc |-> "OSError"] }
  ELSE { read_all(loadpath, filenames, pubkeys) : filenames \in listdir(loadpath) }

\* the module-level "defaults" list
defaults ==
  << <<"defaults">>, <<"secrets">> >> \o
  (IF exists(LOCAL_DEFAULTS) THEN <<LOCAL_DEFAULTS>> ELSE << >>)

\* a configure that falls back on the defaults when given no path
configure_list_fallback(paths) ==
  [i \in 1..Len(IF paths = << >> THEN defaults ELSE paths) |->
     normalize_path((IF paths = << >> THEN defaults ELSE paths)[i])]

\* configure(paths): the list its loop iterates over ("if not paths: return")
configure_list(paths) ==
  IF paths = << >> THEN << >>
  ELSE [i \in 1..Len(paths) |-> normalize_path(paths[i])]

\* configure_cwd(paths): [join(cwd, p) for p in paths if not isabs(p)]
RECURSIVE cwd_list(_)
cwd_list(paths) ==
  IF paths = << >> THEN << >>
  ELSE IF ~isabs(Head(paths))
  THEN <<join(CWD, Head(paths))>> \o cwd_list(Tail(paths))
  ELSE cwd_list(Tail(paths))

\* reconfig(main_parser): what it calls after the -c pre-parse, in order
reconfig_steps == <<"configure_cwd", "main_parser">>

\* ---------------------------------------------------------------- inputs
InputPaths ==
  { <<"conf">>, <<"~">>, <<".", "conf">>, <<"defaults", ".">>,
    <<"/", "work", "conf">>, <<"/", "opt", "app">>, <<"/", "opt", "conf">>,
    <<"/", "opt", "leaky">>, <<"/", "opt", "broken">> }

PathLists(n) == UNION {[1..k -> InputPaths] : k \in 0..n}

RegNames == {"web", "db"}
SM1 == makemap(<< <<"a.sh">> >>, <<"/", "srv", "scripts">>, None)
SM2 == makemap(<< <<"b.sh">> >>, <<"/", "srv", "scripts">>, Some(<<"/", "tmp">>))
FM1 == DictOf(<< <<"/", "etc", "x">> >>, << <<"/", "srv", "files", "x">> >>)
RegMaps == { <<Some(SM1), None>>, <<Some(SM2), Some(FM1)>> }

\* ----------------------------------------------------------------- state
VARIABLES
  PUBKEYS,      \* module global PUBKEYS
  BUNDLEMAP,    \* module global BUNDLEMAP
  PATH,         \* module global PATH (None or a path)
  G,            \* the other keys init hooks put into the module globals
  sys_path,     \* sys.path
  sys_modules,  \* sys.modules: module name -> directory it was loaded from
  pc,           \* where the running call stands; "idle" when none runs
  caller,       \* the entry point of the current or last call
  args,         \* the paths it was given
  todo,         \* the list configure iterates over
  idx,          \* position in todo
  mod,          \* init_module's local mod
  stage,        \* position in reconfig_steps
  exc,          \* the exception that ended the last call, "" if none
  work,         \* paths and registrations handed in so far
  status,       \* per position of todo: what has happened to that path
  pk_before,    \* PUBKEYS when the current call began
  sp_before,    \* sys.path when the last import_by_path began
  reg,          \* the last direct new_bundle call and the registry before it
  parsed        \* the defaults the main parser was built with

vars ==
  <<PUBKEYS, BUNDLEMAP, PATH, G, sys_path, sys_modules, pc, caller, args, todo,
    idx, mod, stage, exc, work, status, pk_before, sp_before, reg, parsed>>

SysPathInit == <<StdDir>>

SysModulesInit == [n \in Imported |-> StdDir \o <<n>>]

Pending == [keys |-> "pending", imp |-> "pending", hook |-> "pending"]

Init ==
  /\ PUBKEYS = << >>
  /\ BUNDLEMAP = EmptyMap
  /\ PATH = None
  /\ G = EmptyMap
  /\ sys_path = SysPathInit
  /\ sys_modules = SysModulesInit
  /\ pc = "boot"
  /\ caller = "module"
  /\ args = << >>
  /\ todo = << >>
  /\ idx = 1
  /\ mod = None
  /\ stage = 0
  /\ exc = ""
  /\ work = 0
  /\ status = << >>
  /\ pk_before = << >>
  /\ sp_before = SysPathInit
  /\ reg = None
  /\ parsed = None

\* pc of reconfig at step s of reconfig_steps, the configure list being l
ReconfigPc(s, l) ==
  IF s > Len(reconfig_steps) THEN "idle"
  ELSE IF reconfig_steps[s] = "main_parser" THEN "main_parser"
  ELSE IF l # << >> THEN "pubkeys"
  ELSE IF s + 1 > Len(reconfig_steps) THEN "idle"
  ELSE "main_parser"

ReconfigStage(s, l) ==
  IF s <= Len(reconfig_steps) /\ reconfig_steps[s] = "configure_cwd" /\ l = << >>
  THEN s + 1 ELSE s

\* pc once configure has returned normally
AfterConfigure ==
  IF caller = "reconfig" THEN ReconfigPc(stage + 1, << >>) ELSE "idle"

\* a call of configure(paths) made by entry point c with arguments a
Begin(c, a, l) ==
  /\ caller' = c
  /\ args' = a
  /\ todo' = l
  /\ idx' = 1
  /\ mod' = None
  /\ exc' = ""
  /\ status' = [i \in 1..Len(l) |-> Pending]
  /\ pk_before' = PUBKEYS
  /\ parsed' = None
  /\ UNCHANGED <<PUBKEYS, BUNDLEMAP, PATH, G, sys_path, sys_modules, sp_before, reg>>

\* module level: configure(defaults)
Boot ==
  /\ pc = "boot"
  /\ Begin("module", defaults, configure_list(defaults))
  /\ pc' = IF configure_list(defaults) = << >> THEN "idle" ELSE "pubkeys"
  /\ UNCHANGED <<stage, work>>

\* configure(paths)
Configure(paths) ==
  /\ pc = "idle"
  /\ work + Len(paths) <= MaxWork
  /\ Begin("configure", paths, configure_list(paths))
  /\ pc' = IF configure_list(paths) = << >> THEN "idle" ELSE "pubkeys"
  /\ work' = work + Len(paths)
  /\ stage' = 0

\* configure_cwd(paths)
ConfigureCwd(paths) ==
  /\ pc = "idle"
  /\ work + Len(paths) <= MaxWork
  /\ Begin("configure_cwd", paths, configure_list(cwd_list(paths)))
  /\ pc' = IF configure_list(cwd_list(paths)) = << >> THEN "idle" ELSE "pubkeys"
  /\ work' = work + Len(paths)
  /\ stage' = 0

\* reconfig(main_parser) with "-c p" given for each p of paths
Reconfig(paths) ==
  /\ pc = "idle"
  /\ work + Len(paths) <= MaxWork
  /\ Begin("reconfig", paths, configure_list(cwd_list(paths)))
  /\ pc' = ReconfigPc(1, configure_list(cwd_list(paths)))
  /\ stage' = ReconfigStage(1, configure_list(cwd_list(paths)))
  /\ work' = work + Len(paths)

\* the outcome of "if os.path.exists(pubkeys_path): load_pubkeys(...)":
\* the set of the outcomes [pubkeys, exc, keys], keys telling what happened
pubkeys_step(pubkeys_path, there, pubkeys) ==
  IF there
  THEN { [keys |-> "loaded"] @@ r : r \in load_pubkeys(pubkeys_path, pubkeys) }
  ELSE { [keys |-> "absent", pubkeys |-> pubkeys, exc |-> ""] }

\* the pubkeys part with outcome r: an exception ends configure
PubkeysDone(r) ==
  /\ PUBKEYS' = r.pubkeys
  /\ IF r.exc # ""
     THEN /\ exc' = r.exc
          /\ pc' = "idle"
          /\ status' = [status EXCEPT ![idx].keys = "raised"]
     ELSE /\ pc' = "import"
          /\ status' = [status EXCEPT ![idx].keys = r.keys]
          /\ UNCHANGED exc

\* configure's loop body, first half: the pubkeys directory
LoadPubkeys ==
  /\ pc = "pubkeys"
  /\ \E r \in pubkeys_step(join(todo[idx], PUBKEYSDIR),
                            exists(join(todo[idx], PUBKEYSDIR)), PUBKEYS) :
       PubkeysDone(r)
  /\ UNCHANGED <<BUNDLEMAP, PATH, G, sys_path, sys_modules, caller, args, todo, idx,
                 mod, stage, work, pk_before, sp_before, reg, parsed>>

\* the loop goes on with the next path, or configure returns
Advance ==
  IF idx < Len(todo)
  THEN /\ idx' = idx + 1
       /\ pc' = "pubkeys"
       /\ stage' = stage
  ELSE /\ idx' = idx
       /\ pc' = AfterConfigure
       /\ stage' = IF caller = "reconfig" THEN stage + 1 ELSE stage

\* init_module(path) once import_by_path has given r: an exception ends
\* configure; a module with an init goes on to the hook; otherwise next path
AfterImport(r) ==
  /\ sp_before' = sys_path
  /\ sys_path' = r.sys_path
  /\ sys_modules' = r.sys_modules
  /\ mod' = r.mod
  /\ IF r.exc # ""
     THEN /\ exc' = r.exc
          /\ pc' = "idle"
          /\ status' = [status EXCEPT ![idx].imp = "raised"]
          /\ UNCHANGED <<idx, stage>>
     ELSE IF r.mod # None /\ hasinit(The(r.mod))
     THEN /\ pc' = "init"
          /\ status' = [status EXCEPT ![idx].imp = "ok"]
          /\ UNCHANGED <<idx, stage, exc>>
     ELSE /\ status' = [status EXCEPT
                          ![idx].imp = IF r.mod = None THEN "failed" ELSE "ok",
                          ![idx].hook = "none"]
          /\ Advance
          /\ UNCHANGED exc

\* init_module(path), up to the test of mod
ImportStep ==
  /\ pc = "import"
  /\ AfterImport(import_by_path(todo[idx], sys_path, sys_modules))
  /\ UNCHANGED <<PUBKEYS, BUNDLEMAP, PATH, G, caller, args, todo, work, pk_before,
                 reg, parsed>>

\* "global PATH; PATH = path"
SetPath ==
  /\ pc = "init"
  /\ PATH' = Some(todo[idx])
  /\ pc' = "hook"
  /\ UNCHANGED <<PUBKEYS, BUNDLEMAP, G, sys_path, sys_modules, caller, args, todo,
                 idx, mod, stage, exc, work, status, pk_before, sp_before, reg, parsed>>

\* the hook h has run with outcome r: an exception ends configure
AfterHook(h, r) ==
  /\ G' = r.G
  /\ BUNDLEMAP' = r.BUNDLEMAP
  /\ IF r.exc # ""
     THEN /\ exc' = r.exc
          /\ pc' = "idle"
          /\ status' = [status EXCEPT ![idx].hook = "raised"]
          /\ UNCHANGED <<idx, stage>>
     ELSE /\ status' = [status EXCEPT ![idx].hook = h]
          /\ Advance
          /\ UNCHANGED exc

\* "mod.init(DictObj(globals()))"
HookStep ==
  /\ pc = "hook"
  /\ AfterHook(ModuleOf(The(mod)).hook,
               RunHook(ModuleOf(The(mod)).hook, G, BUNDLEMAP, PATH))
  /\ UNCHANGED <<PUBKEYS, PATH, sys_path, sys_modules, caller, args, todo, mod, work,
                 pk_before, sp_before, reg, parsed>>

\* "main_parser()": the caller's factory, built with add_auth_args
MainParser ==
  /\ pc = "main_parser"
  /\ IF add_auth_args(G).exc # ""
     THEN /\ exc' = "AttributeError"
          /\ pc' = "idle"
          /\ UNCHANGED <<parsed, stage, idx>>
     ELSE /\ parsed' = add_auth_args(G).defaults
          /\ pc' = ReconfigPc(stage + 1, todo)
          /\ stage' = ReconfigStage(stage + 1, todo)
          /\ UNCHANGED <<exc, idx>>
  /\ UNCHANGED <<PUBKEYS, BUNDLEMAP, PATH, G, sys_path, sys_modules, caller, args,
                 todo, mod, work, status, pk_before, sp_before, reg>>

\* a direct call new_bundle(name, scriptmap, filemap)
NewBundle(name, scriptmap, filemap) ==
  /\ pc = "idle"
  /\ work + 1 <= MaxWork
  /\ BUNDLEMAP' = new_bundle(BUNDLEMAP, name, scriptmap, filemap)
  /\ reg' = Some([name |-> name, scriptmap |-> scriptmap, filemap |-> filemap,
                  before |-> BUNDLEMAP])
  /\ caller' = "new_bundle"
  /\ work' = work + 1
  /\ UNCHANGED <<PUBKEYS, PATH, G, sys_path, sys_modules, pc, args, todo, idx, mod,
                 stage, exc, status, pk_before, sp_before, parsed>>

\* the path lists a new call can be given: none while a call is running
CallPaths == IF pc = "idle" THEN PathLists(MaxWork - work) ELSE {}

Next ==
  \/ Boot
  \/ \E paths \in CallPaths : Configure(paths)
  \/ \E paths \in CallPaths : ConfigureCwd(paths)
  \/ \E paths \in CallPaths : Reconfig(paths)
  \/ LoadPubkeys
  \/ ImportStep
  \/ SetPath
  \/ HookStep
  \/ MainParser
  \/ \E n \in RegNames, m \in RegMaps : NewBundle(n, m[1], m[2])

Spec == Init /\ [][Next]_vars

\* ================================================================ claims
Done(i) ==
  /\ status[i].keys # "pending"
  /\ status[i].imp # "pending"
  /\ status[i].hook # "pending"

Started(i) == status[i].keys # "pending"

Returned == pc = "idle" /\ exc = ""

Aborted == pc = "idle" /\ exc # ""

SiteConf == <<"/", "work", "conf">>
App == <<"/", "opt", "app">>
Tilde == <<"~">>

\* the init hook of the module that lies at a configuration path
HookAt(path) ==
  IF resolve(path) \in {Some(d) : d \in ModuleDirs}
  THEN ModuleOf(path).hook
  ELSE "none"

\* C1 as claimed: configure processes its paths one after another in the
\* order given, and when the module at an earlier path has an init hook that
\* sets X = 1 and the module at a later path has an init hook that sets
\* Y = X + 1, then Y is 2 once configure has returned.
C1_Sequential ==
  /\ \A i \in 1..Len(todo) : \A j \in 1..Len(todo) :
       (i < j /\ Started(j)) => Done(i)
  /\ (Returned /\ caller = "configure") =>
       \A i \in 1..Len(todo) : \A j \in 1..Len(todo) :
         (i < j /\ HookAt(todo[i]) = "conf_init" /\ HookAt(todo[j]) = "app_init")
           => ("Y" \in DOMAIN G /\ G["Y"] = 2)

\* C2 (as amended): an import that fails with ImportError never ends
\* configure: the loop goes on with the next path, and a configure that
\* returns has loaded the pubkeys of, and attempted the import of, every path.
\* A call that ended early was ended at the path where it stopped by an
\* exception other than ImportError (ValueError for a final segment that is
\* empty or starts with a dot, SyntaxError of the module, an exception of the
\* hook), and the paths after it are untouched.
C2_ImportErrorNonFatal ==
  /\ exc # "ImportError"
  /\ \A i \in 1..Len(todo) :
       /\ status[i].imp = "failed" =>
            /\ i < Len(todo) => idx > i
            /\ ~(Aborted /\ idx = i)
       /\ status[i].imp = "raised" =>
            (Aborted /\ idx = i /\ exc \in {"ValueError", "SyntaxError"})
  /\ (Returned /\ caller \in {"module", "configure", "configure_cwd"}) =>
       \A i \in 1..Len(todo) : Done(i)
  /\ (Aborted /\ caller \in {"module", "configure", "configure_cwd"}) =>
       /\ \/ status[idx].keys = "raised"
          \/ status[idx].imp = "raised"
          \/ status[idx].hook = "raised"
       /\ \A j \in (idx + 1)..Len(todo) : status[j] = Pending

\* configure([~, <conf>]) has returned: /code/~ holds no module, its import
\* failed, and the path after it was processed
C2_Witness ==
  /\ Returned /\ caller = "configure" /\ Len(todo) = 2
  /\ status[1].imp = "failed"
  /\ status[2].imp = "ok" /\ status[2].hook = "conf_init"

\* C2 as claimed: whenever the import at some path has failed (the module
\* could not be loaded), configure has not aborted and, once it has returned,
\* every later path was processed.
C2_Original ==
  \A i \in 1..Len(todo) :
    status[i].imp \in {"failed", "raised"} =>
      /\ ~Aborted
      /\ Returned => \A j \in (i + 1)..Len(todo) : Done(j)

\* C3 as claimed: after every import_by_path the module search path equals
\* the search path before the call, whatever the imported module did to it.
C3_SysPathRestored == sys_path = sp_before

\* C4 as claimed: configure_cwd processes every path it is given, in order,
\* the relative ones joined to the working directory, the absolute ones as is.
C4_CwdKeepsAbsolute ==
  caller = "configure_cwd" =>
    todo = [i \in 1..Len(args) |->
              IF isabs(args[i]) THEN args[i] ELSE join(CWD, args[i])]

\* the key texts of the files of the directory k
KeysIn(k) ==
  { <<"key", k[Len(k) - 1], f[Len(f)]>> :
      f \in { g \in Files : Len(g) = Len(k) + 1 /\ SubSeq(g, 1, Len(k)) = k } }

\* the key texts a configuration path contributes: those of the files of the
\* pubkeys subdirectory of the directory it names; none when the path names no
\* directory or the directory has no such subdirectory
KeysOf(path) ==
  IF resolve(path) \in {Some(d) : d \in {c \in Dirs : (c \o PUBKEYSDIR) \in Dirs}}
  THEN KeysIn(The(resolve(path)) \o PUBKEYSDIR)
  ELSE {}

\* how many keys the first k paths of l contribute
RECURSIVE KeysUpTo(_, _)
KeysUpTo(l, k) ==
  IF k = 0 THEN 0 ELSE KeysUpTo(l, k - 1) + Cardinality(KeysOf(l[k]))

NStarted == Cardinality({i \in 1..Len(todo) : Started(i)})

IsPrefix(a, b) == Len(a) <= Len(b) /\ SubSeq(b, 1, Len(a)) = a

\* the members of s at the positions from + 1 .. to
Between(s, from, to) == { s[i] : i \in (from + 1)..to }

\* s is old followed by one block for each of the first n paths of l, in path
\* order, the block of a path holding each of the path's key texts exactly
\* once (as many positions as texts, and every text among them), in any order
AppendedInOrder(s, old, l, n) ==
  /\ IsPrefix(old, s)
  /\ Len(s) = Len(old) + KeysUpTo(l, n)
  /\ \A k \in 1..n :
       Between(s, Len(old) + KeysUpTo(l, k - 1), Len(old) + KeysUpTo(l, k))
         = KeysOf(l[k])

\* C5: PUBKEYS is append-only (no step removes or reorders an entry), and a
\* configure call has appended to what was there when it began, for each path
\* processed so far, in path order, the text of every file of that path's
\* pubkeys directory exactly once (the files of one directory in the order
\* the listing gave them).
C5_PubkeysAppendOnly ==
  /\ [](AppendedInOrder(PUBKEYS, pk_before, todo, NStarted))
  /\ [][IsPrefix(PUBKEYS, PUBKEYS')]_vars

\* after start-up and configure_cwd([<conf>]), configure([defaults/.]) has
\* loaded the keys of /code/defaults/./pubkeys: the keys of the earlier calls
\* are still first (b.pub listed before a.pub at start-up), then a.pub's and
\* b.pub's once more, each once, this time a.pub first
C5_Witness ==
  /\ caller = "configure" /\ todo = << <<"/", "code", "defaults", ".">> >>
  /\ status[1].keys = "loaded"
  /\ PUBKEYS = << <<"key", "defaults", "b.pub">>, <<"key", "defaults", "a.pub">>,
                  <<"key", "conf", "c.pub">>,
                  <<"key", "defaults", "a.pub">>, <<"key", "defaults", "b.pub">> >>

\* C6: configure([]) changes nothing: PUBKEYS, BUNDLEMAP, PATH, the other
\* globals, sys.path and sys.modules are as before and no loop is entered.
C6_EmptyNoop ==
  [][(pc = "idle" /\ caller' = "configure" /\ args' = << >>) =>
       (/\ UNCHANGED <<PUBKEYS, BUNDLEMAP, PATH, G, sys_path, sys_modules>>
        /\ pc' = "idle" /\ exc' = "")]_vars

\* configure([]) was called after a registration and has returned
C6_Witness ==
  /\ caller = "configure" /\ args = << >> /\ pc = "idle"
  /\ reg # None /\ PUBKEYS # << >> /\ PATH # None

\* C7 as claimed: when reconfig calls the main_parser factory, every path
\* given with -c has been processed (a relative one joined to the working
\* directory, an absolute one as it is), in order, and the defaults the parser
\* is built with are the values the configuration modules left in the globals.
C7_ParserAfterConfigure ==
  /\ (caller = "reconfig" /\ pc = "main_parser") =>
       /\ Len(todo) = Len(args)
       /\ \A i \in 1..Len(args) :
            /\ todo[i] = (IF isabs(args[i]) THEN args[i] ELSE join(CWD, args[i]))
            /\ Done(i)
  /\ (caller = "reconfig" /\ parsed # None) =>
       /\ The(parsed).provider = G["DEFAULT_PROVIDER"]
       /\ The(parsed).userid = G["DEFAULT_USERID"]
       /\ The(parsed).secret_key = G["DEFAULT_SECRET_KEY"]

\* C8: after new_bundle(name, scriptmap, filemap) the registry holds under
\* name exactly the given scriptmap and filemap (empty when None), whether or
\* not name was registered before, and every other name is as it was.
C8_LastWriteWins ==
  (caller = "new_bundle" /\ reg # None) =>
    LET r == The(reg)
    IN  /\ DOMAIN BUNDLEMAP = DOMAIN r.before \cup {r.name}
        /\ BUNDLEMAP[r.name].scriptmap =
             (IF r.scriptmap = None THEN EmptyMap ELSE The(r.scriptmap))
        /\ BUNDLEMAP[r.name].filemap =
             (IF r.filemap = None THEN EmptyMap ELSE The(r.filemap))
        /\ \A n \in DOMAIN r.before \ {r.name} : BUNDLEMAP[n] = r.before[n]

\* "web", registered by defaults_init with a filemap, was registered again
\* with another scriptmap and no filemap
C8_Witness ==
  /\ caller = "new_bundle" /\ reg # None
  /\ The(reg).name = "web" /\ "web" \in DOMAIN The(reg).before
  /\ The(reg).before["web"].filemap # EmptyMap
  /\ The(reg).filemap = None
  /\ BUNDLEMAP["web"] = [scriptmap |-> SM1, filemap |-> EmptyMap]

\* C9 as claimed: "~" normalizes to the user's home directory.
C9_TildeIsHome ==
  caller = "configure" =>
    \A i \in 1..Len(args) :
      (args[i] = Tilde /\ i <= Len(todo)) => todo[i] = expanduser(Tilde)

\* C10 as claimed: while an init hook runs, PATH names the directory the
\* module that owns the hook was loaded from.
C10_PathIsModuleDir ==
  pc = "hook" =>
    (PATH # None /\ mod # None /\ resolve(The(PATH)) = resolve(The(mod)))

====
